---- MODULE Spec2Model ----
(***************************************************************************)
(* ReadingLists: the BookTracker form (gui.py) and its CSV persistence.    *)
(*                                                                         *)
(* Text is modelled by TLA+ strings, one character at a time, so that      *)
(* str.strip, float(), ", ".join and csv.writer's quoting are computed as  *)
(* Python computes them.  A file is the sequence of lines written to it.   *)
(***************************************************************************)
EXTENDS Integers, Sequences, FiniteSets, TLC

VARIABLES
    read_status,     \* self._read_status: the mode radio button's value
    title_entry,     \* text of self._title_entry
    author_entry,    \* text of self._author_entry
    rating_entry,    \* self._rating_entry: [bound, alive, text]
    genre_vars,      \* self._genre_vars: [bound, vals], vals: genre -> 0/1
    type_var,        \* self._type_var
    month_var,       \* self._month_var
    message_label,   \* self._message_label: [text, fg]
    files,           \* the working directory: filename -> [exists, lines]
    last             \* the callback that ran last and how it ended

vars == <<read_status, title_entry, author_entry, rating_entry, genre_vars,
          type_var, month_var, message_label, files, last>>

fields == <<title_entry, author_entry, rating_entry, genre_vars, type_var, month_var>>

----------------------------------------------------------------------------
(* Vocabularies and literals of gui.py *)

GENRES == <<"Sci-Fi", "Action", "Fantasy", "Mystery", "Thriller",
            "Horror", "Romance", "Drama", "YA", "Dystopian", "Crime",
            "Biography", "Memoir", "Self-Help", "Health", "Travel",
            "Business">>

MONTHS == <<"January", "February", "March", "April", "May", "June",
            "July", "August", "September", "October", "November", "December">>

TYPES == <<"Series", "Standalone">>

READ_FILE == "read_books.csv"

TBR_FILE == "tbr.csv"

READ_HEADER == <<"Title", "Author", "Rating", "Type", "Genres", "Month">>

TBR_HEADER == <<"Title", "Author", "Type">>

MSG_FILL == "Fill in all fields."

MSG_RATING == "Rating must be a number between 0 and 10."

MSG_SAVED == "Saved!"

MSG_ERROR_PREFIX == "Error saving file: "

Range(s) == { s[i] : i \in 1..Len(s) }

----------------------------------------------------------------------------
(* Text helpers *)

Char(s, i) == SubSeq(s, i, i)

Whitespace == {" ", "\t", "\n", "\r", "\f"}

Digits == {"0", "1", "2", "3", "4", "5", "6", "7", "8", "9"}

RECURSIVE LStrip(_)
LStrip(s) ==
    IF Len(s) > 0 /\ Char(s, 1) \in Whitespace THEN LStrip(SubSeq(s, 2, Len(s))) ELSE s

RECURSIVE RStrip(_)
RStrip(s) ==
    IF Len(s) > 0 /\ Char(s, Len(s)) \in Whitespace
    THEN RStrip(SubSeq(s, 1, Len(s) - 1)) ELSE s

\* str.strip()
Strip(s) == RStrip(LStrip(s))

\* sep.join(parts)
RECURSIVE Join(_, _)
Join(sep, parts) ==
    IF Len(parts) = 0 THEN ""
    ELSE IF Len(parts) = 1 THEN parts[1]
    ELSE parts[1] \o sep \o Join(sep, Tail(parts))

\* Does s contain the character c?
HasChar(s, c) == \E i \in 1..Len(s) : Char(s, i) = c

----------------------------------------------------------------------------
(* float(text), as CPython parses a string: underscores only between       *)
(* digits, an optional sign, then inf / infinity / nan (any case) or a     *)
(* decimal literal with an optional exponent.  The result is               *)
(* [ok, kind, neg, mant, exp]: ok = FALSE is ValueError; kind "num" is the *)
(* double of value (-1)^neg * mant * 10^exp, rounded to zero or to         *)
(* infinity where a double underflows or overflows.                        *)

Lower(c) ==
    CASE c = "I" -> "i" [] c = "N" -> "n" [] c = "F" -> "f" [] c = "T" -> "t"
      [] c = "Y" -> "y" [] c = "A" -> "a" [] c = "E" -> "e" [] OTHER -> c

RECURSIVE LowerStr(_)
LowerStr(s) == IF Len(s) = 0 THEN "" ELSE Lower(Char(s, 1)) \o LowerStr(SubSeq(s, 2, Len(s)))

DigitVal(c) ==
    CASE c = "0" -> 0 [] c = "1" -> 1 [] c = "2" -> 2 [] c = "3" -> 3 [] c = "4" -> 4
      [] c = "5" -> 5 [] c = "6" -> 6 [] c = "7" -> 7 [] c = "8" -> 8 [] c = "9" -> 9

\* The value of a string of digits ("" is 0).
RECURSIVE DigitsValue(_)
DigitsValue(s) ==
    IF Len(s) = 0 THEN 0
    ELSE 10 * DigitsValue(SubSeq(s, 1, Len(s) - 1)) + DigitVal(Char(s, Len(s)))

\* How many digits s holds from position i on.
RECURSIVE DigitRun(_, _)
DigitRun(s, i) ==
    IF i <= Len(s) /\ Char(s, i) \in Digits THEN 1 + DigitRun(s, i + 1) ELSE 0

RECURSIVE Pow10(_)
Pow10(n) == IF n <= 0 THEN 1 ELSE 10 * Pow10(n - 1)

RECURSIVE NumDigits(_)
NumDigits(m) == IF m < 10 THEN 1 ELSE 1 + NumDigits(m \div 10)

\* An underscore is legal only between two digits; float() then drops it.
UnderscoresOk(s) ==
    \A i \in 1..Len(s) :
        Char(s, i) = "_" =>
            /\ i > 1 /\ i < Len(s)
            /\ Char(s, i - 1) \in Digits
            /\ Char(s, i + 1) \in Digits

RECURSIVE RemoveUnderscores(_)
RemoveUnderscores(s) ==
    IF Len(s) = 0 THEN ""
    ELSE (IF Char(s, 1) = "_" THEN "" ELSE Char(s, 1)) \o RemoveUnderscores(SubSeq(s, 2, Len(s)))

FloatError == [ok |-> FALSE, kind |-> "error", neg |-> FALSE, mant |-> 0, exp |-> 0]

FloatNum(neg, mant, exp) == [ok |-> TRUE, kind |-> "num", neg |-> neg, mant |-> mant, exp |-> exp]

FloatSpecial(kind, neg) == [ok |-> TRUE, kind |-> kind, neg |-> neg, mant |-> 0, exp |-> 0]

\* The seven leading digits of mant, as a number.
Lead7(mant) ==
    LET d == NumDigits(mant)
    IN  IF d <= 7 THEN mant * Pow10(7 - d) ELSE mant \div Pow10(d - 7)

\* Round a decimal to what a double holds: zero below half the least
\* subnormal (2^-1075 = 2.470328...e-324), infinity above the greatest double
\* (1.797693...e308).
RoundDouble(neg, mant, exp) ==
    LET top == NumDigits(mant) + exp     \* 10^(top-1) <= value < 10^top
    IN  IF mant = 0 THEN FloatNum(neg, 0, 0)
        ELSE IF top < -323 \/ (top = -323 /\ Lead7(mant) <= 2470328) THEN FloatNum(neg, 0, 0)
        ELSE IF top > 309 \/ (top = 309 /\ Lead7(mant) >= 1797694) THEN FloatSpecial("inf", neg)
        ELSE FloatNum(neg, mant, exp)

\* The unsigned decimal literal s: digits [. digits] [e [sign] digits].
ParseDecimal(neg, s) ==
    LET n1 == DigitRun(s, 1)
        dot == n1 + 1 <= Len(s) /\ Char(s, n1 + 1) = "."
        f0 == IF dot THEN n1 + 2 ELSE n1 + 1          \* first fraction digit
        n2 == IF dot THEN DigitRun(s, f0) ELSE 0
        e0 == f0 + n2                                 \* where the exponent may start
        hasE == e0 <= Len(s) /\ Char(s, e0) \in {"e", "E"}
        sgn == hasE /\ e0 + 1 <= Len(s) /\ Char(s, e0 + 1) \in {"+", "-"}
        x0 == IF sgn THEN e0 + 2 ELSE e0 + 1          \* first exponent digit
        n3 == IF hasE THEN DigitRun(s, x0) ELSE 0
        stop == IF hasE THEN x0 + n3 ELSE e0          \* first character not consumed
        expo == IF hasE
                THEN (IF sgn /\ Char(s, e0 + 1) = "-" THEN -1 ELSE 1)
                     * DigitsValue(SubSeq(s, x0, x0 + n3 - 1))
                ELSE 0
        mant == DigitsValue(SubSeq(s, 1, n1) \o SubSeq(s, f0, f0 + n2 - 1))
    IN  IF n1 + n2 = 0 \/ (hasE /\ n3 = 0) \/ stop /= Len(s) + 1
        THEN FloatError
        ELSE RoundDouble(neg, mant, expo - n2)

\* float(text)
ParseFloat(text) ==
    LET t == Strip(text)
        u == RemoveUnderscores(t)
        signed == Len(u) > 0 /\ Char(u, 1) \in {"+", "-"}
        neg == signed /\ Char(u, 1) = "-"
        body == IF signed THEN SubSeq(u, 2, Len(u)) ELSE u
        low == LowerStr(body)
    IN  IF ~UnderscoresOk(t) THEN FloatError
        ELSE IF low \in {"inf", "infinity"} THEN FloatSpecial("inf", neg)
        ELSE IF low = "nan" THEN FloatSpecial("nan", neg)
        ELSE ParseDecimal(neg, body)

\* Faulty variant: 0 < v.
ZeroLt(v) ==
    CASE v.kind = "nan" -> FALSE
      [] v.kind = "inf" -> ~v.neg
      [] OTHER -> v.mant /= 0 /\ ~v.neg

\* 0 <= v, as doubles compare (nan compares false, -0.0 equals 0).
ZeroLe(v) ==
    CASE v.kind = "nan" -> FALSE
      [] v.kind = "inf" -> ~v.neg
      [] OTHER -> v.mant = 0 \/ ~v.neg

\* v <= 10, as doubles compare.
LeTen(v) ==
    CASE v.kind = "nan" -> FALSE
      [] v.kind = "inf" -> v.neg
      [] OTHER ->
            LET d == NumDigits(v.mant)
            IN  \/ v.neg
                \/ v.mant = 0
                \/ d + v.exp <= 1
                \/ (d + v.exp = 2 /\ v.mant = Pow10(d - 1))

\* The try block of _save_read_book: float(rating) and the range check;
\* FALSE is the ValueError branch.
RatingOk(rating) ==
    LET rating_value == ParseFloat(rating)
    IN  rating_value.ok /\ ZeroLe(rating_value) /\ LeTen(rating_value)

----------------------------------------------------------------------------
(* csv.writer(f).writerow(row): the excel dialect, QUOTE_MINIMAL *)

\* A field is quoted when it holds the delimiter, the quote character or a
\* character of the line terminator.
NeedsQuote(field) ==
    \E i \in 1..Len(field) : Char(field, i) \in {",", "\"", "\r", "\n"}

\* The field with every quote character doubled.
RECURSIVE DoubleQuotes(_)
DoubleQuotes(field) ==
    IF Len(field) = 0 THEN ""
    ELSE (IF Char(field, 1) = "\"" THEN "\"\"" ELSE Char(field, 1))
         \o DoubleQuotes(SubSeq(field, 2, Len(field)))

\* Faulty variant: no field is ever quoted.
CsvFieldUnquoted(field) == field

CsvField(field) ==
    IF NeedsQuote(field) THEN "\"" \o DoubleQuotes(field) \o "\"" ELSE field

\* The line writerow(row) writes, line terminator included.
WriteRow(row) ==
    Join(",", [i \in 1..Len(row) |-> CsvField(row[i])]) \o "\r\n"

----------------------------------------------------------------------------
(* The form's state *)

READ == "Read"

TBR == "To Be Read"

\* tk.IntVar() of every genre: 0
NoGenres == [g \in Range(GENRES) |-> 0]

\* No attribute yet: hasattr(self, "_rating_entry") is False.
UnboundRating == [bound |-> FALSE, alive |-> FALSE, text |-> ""]

UnboundGenres == [bound |-> FALSE, vals |-> NoGenres]

NoFile == [exists |-> FALSE, lines |-> <<>>]

\* What the last callback was: its name, how it ended, whether an exception
\* left it, and (for a mode button) the mode it was pressed in and whether a
\* rating or genre of an earlier Read visit was still held.
Event(op, outcome, raised, from, stale) ==
    [op |-> op, outcome |-> outcome, raised |-> raised, from |-> from, stale |-> stale]

\* BookTracker.__init__, ending in _show_tbr_options(), in a directory that
\* holds neither file.
Init ==
    /\ read_status = TBR
    /\ type_var = ""
    /\ month_var = "January"
    /\ message_label = [text |-> "", fg |-> "red"]
    /\ title_entry = ""
    /\ author_entry = ""
    /\ rating_entry = UnboundRating
    /\ genre_vars = UnboundGenres
    /\ files = [f \in {READ_FILE, TBR_FILE} |-> NoFile]
    /\ last = Event("init", "none", FALSE, TBR, FALSE)

----------------------------------------------------------------------------
(* Rendering a mode *)

\* _clear_frame: every widget of the frame but the message label is
\* destroyed; the label and its text stay.
ClearFrameMessage == message_label

\* _clear_frame destroys the rating Entry; the attribute keeps naming the
\* dead widget, whose text is gone.
ClearFrameRating ==
    IF rating_entry.bound THEN [bound |-> TRUE, alive |-> FALSE, text |-> ""]
    ELSE rating_entry

\* _add_labeled_entry: a fresh, empty Entry.
AddLabeledEntry == ""

\* Faulty variant: a new StringVar for the type on every rendering.
CommonFieldsTypeFresh == ""

\* _add_common_fields binds the type radio buttons to the one self._type_var.
CommonFieldsType == type_var

\* _add_dropdown binds the OptionMenu to the one self._month_var.
DropdownMonth == month_var

\* Faulty variant: the IntVars of an earlier Read visit used again.
AddGenreCheckboxesReuse ==
    IF genre_vars.bound THEN genre_vars ELSE [bound |-> TRUE, vals |-> NoGenres]

\* _add_genre_checkboxes: a new IntVar (0) per genre.
AddGenreCheckboxes == [bound |-> TRUE, vals |-> NoGenres]

\* Was a rating or a genre of an earlier Read visit still held when the
\* mode was rendered?
Stale ==
    \/ rating_entry.text /= ""
    \/ \E g \in Range(GENRES) : genre_vars.vals[g] = 1

\* The "Read" radio button: _show_read_options.
ShowReadOptions ==
    /\ read_status' = READ
    /\ message_label' = ClearFrameMessage
    /\ title_entry' = AddLabeledEntry
    /\ author_entry' = AddLabeledEntry
    /\ type_var' = CommonFieldsType
    /\ rating_entry' = [bound |-> TRUE, alive |-> TRUE, text |-> AddLabeledEntry]
    /\ genre_vars' = AddGenreCheckboxes
    /\ month_var' = DropdownMonth
    /\ UNCHANGED files
    /\ last' = Event("show_read", "none", FALSE, read_status, Stale)

\* The "To Be Read" radio button: _show_tbr_options.
ShowTbrOptions ==
    /\ read_status' = TBR
    /\ message_label' = ClearFrameMessage
    /\ title_entry' = AddLabeledEntry
    /\ author_entry' = AddLabeledEntry
    /\ type_var' = CommonFieldsType
    /\ rating_entry' = ClearFrameRating
    /\ UNCHANGED <<genre_vars, month_var, files>>
    /\ last' = Event("show_tbr", "none", FALSE, read_status, Stale)

----------------------------------------------------------------------------
(* The user's input, through the widgets the mode shows *)

Edited == Event("edit", "none", FALSE, read_status, FALSE)

\* Typing into the title Entry.
EditTitle(texts) ==
    /\ \E s \in texts : title_entry' = s
    /\ UNCHANGED <<read_status, author_entry, rating_entry, genre_vars, type_var,
                   month_var, message_label, files>>
    /\ last' = Edited

\* Typing into the author Entry.
EditAuthor(texts) ==
    /\ \E s \in texts : author_entry' = s
    /\ UNCHANGED <<read_status, title_entry, rating_entry, genre_vars, type_var,
                   month_var, message_label, files>>
    /\ last' = Edited

\* Typing into the rating Entry, which only Read mode shows.
EditRating(texts) ==
    /\ read_status = READ
    /\ rating_entry.alive
    /\ \E s \in texts : rating_entry' = [rating_entry EXCEPT !.text = s]
    /\ UNCHANGED <<read_status, title_entry, author_entry, genre_vars, type_var,
                   month_var, message_label, files>>
    /\ last' = Edited

\* Clicking a type radio button (both modes show them).
ChooseType(choices) ==
    /\ \E t \in choices : type_var' = t
    /\ UNCHANGED <<read_status, title_entry, author_entry, rating_entry, genre_vars,
                   month_var, message_label, files>>
    /\ last' = Edited

\* Picking a month in the OptionMenu, which only Read mode shows.
ChooseMonth(choices) ==
    /\ read_status = READ
    /\ \E m \in choices : month_var' = m
    /\ UNCHANGED <<read_status, title_entry, author_entry, rating_entry, genre_vars,
                   type_var, message_label, files>>
    /\ last' = Edited

\* Clicking a genre Checkbutton, which only Read mode shows.
ToggleGenre(choices) ==
    /\ read_status = READ
    /\ genre_vars.bound
    /\ \E g \in choices :
          genre_vars' = [genre_vars EXCEPT !.vals[g] = 1 - genre_vars.vals[g]]
    /\ UNCHANGED <<read_status, title_entry, author_entry, rating_entry, type_var,
                   month_var, message_label, files>>
    /\ last' = Edited

----------------------------------------------------------------------------
(* _save_csv *)

\* How the try block of _save_csv ends: "ok", or the statement that raised.
\*   "open"   os.path.exists, os.path.getsize or open() raised: the file is
\*            as it was;
\*   "header" writer.writerow(header) raised: the file has been opened (and
\*            so exists) and nothing was written;
\*   "data"   writer.writerow(data) raised: leaving the with block flushes
\*            what was written before it;
\*   "close"  closing raised after the buffer was flushed.
\* A line is written whole or not at all.
IOOutcomes == {"ok", "open", "header", "data", "close"}

\* str(e) of the exception caught
ErrorText(io, filename) ==
    IF io = "open" THEN "[Errno 13] Permission denied: '" \o filename \o "'"
    ELSE "[Errno 28] No space left on device"

\* Faulty variant: the zero-length test left out.
IsNewFileNoSize(file) == ~file.exists

\* is_new_file = not os.path.exists(filename) or os.path.getsize(filename) == 0
IsNewFile(file) == ~file.exists \/ Len(file.lines) = 0

\* The file after _save_csv(filename, data, header) ended as io says.
SaveCsvFile(file, data, header, io) ==
    LET is_new_file == IsNewFile(file)
        head == IF is_new_file THEN <<WriteRow(header)>> ELSE <<>>
    IN  CASE io = "open" -> file
          [] io = "header" -> [exists |-> TRUE, lines |-> file.lines]
          [] io = "data" -> [exists |-> TRUE, lines |-> file.lines \o head]
          [] OTHER -> [exists |-> TRUE, lines |-> file.lines \o head \o <<WriteRow(data)>>]

\* The status text after _save_csv ended as io says.
SaveCsvMessage(filename, io) ==
    IF io = "ok" THEN [text |-> MSG_SAVED, fg |-> "green"]
    ELSE [text |-> MSG_ERROR_PREFIX \o ErrorText(io, filename), fg |-> "red"]

\* _save_csv(filename, data, header), ending as io says; the file holds at
\* most maxLines lines.
SaveCsv(filename, data, header, io, maxLines) ==
    /\ io = "header" => IsNewFile(files[filename])
    /\ Len(SaveCsvFile(files[filename], data, header, "ok").lines) <= maxLines
    /\ files' = [files EXCEPT ![filename] = SaveCsvFile(@, data, header, io)]
    /\ message_label' = SaveCsvMessage(filename, io)

----------------------------------------------------------------------------
(* _clear_entries *)

\* self._rating_entry names a destroyed widget: Entry.delete raises
\* tk.TclError (invalid command name).
ClearEntriesRaises == rating_entry.bound /\ ~rating_entry.alive

\* _clear_entries, statement by statement; an exception ends it where it
\* is raised.
ClearEntries ==
    /\ title_entry' = ""
    /\ author_entry' = ""
    /\ type_var' = ""
    /\ IF ClearEntriesRaises
       THEN UNCHANGED <<rating_entry, genre_vars, month_var>>
       ELSE /\ rating_entry' = IF rating_entry.bound
                               THEN [rating_entry EXCEPT !.text = ""]
                               ELSE rating_entry
            /\ genre_vars' = IF genre_vars.bound
                             THEN [genre_vars EXCEPT !.vals = NoGenres]
                             ELSE genre_vars
            /\ month_var' = "January"

----------------------------------------------------------------------------
(* The Save button *)

\* Faulty variant: any() in place of all().
AnyFilled(values) == \E i \in 1..Len(values) : values[i] /= ""

\* all([...]) over strings: none is empty
All(values) == \A i \in 1..Len(values) : values[i] /= ""

\* [g for g, var in self._genre_vars.items() if var.get()]: a dict iterates
\* in insertion order, the order of the genre list.
SelectedGenres == SelectSeq(GENRES, LAMBDA g : genre_vars.vals[g] /= 0)

Outcome(io) == IF io = "ok" THEN "saved" ELSE "error"

\* The validation of _save_read_book: "ok", or the message it rejects with.
ValidateRead(title, author, rating, book_type, month) ==
    IF ~All(<<title, author, rating, book_type, month>>) THEN "fill"
    ELSE IF ~RatingOk(rating) THEN "rating"
    ELSE "ok"

\* The validation of _save_tbr_book.
ValidateTbr(title, author, book_type) ==
    IF ~All(<<title, author, book_type>>) THEN "fill" ELSE "ok"

Reject(op, verdict) ==
    /\ message_label' = [text |-> IF verdict = "fill" THEN MSG_FILL ELSE MSG_RATING,
                         fg |-> "red"]
    /\ UNCHANGED <<title_entry, author_entry, rating_entry, genre_vars, type_var,
                   month_var, files>>
    /\ last' = Event(op, verdict, FALSE, read_status, FALSE)

\* The Save button of Read mode: _save_read_book.
SaveReadBook(maxLines) ==
    /\ read_status = READ
    /\ UNCHANGED read_status
    /\ LET title == Strip(title_entry)
           author == Strip(author_entry)
           rating == Strip(rating_entry.text)
           book_type == type_var
           month == month_var
           selected_genres == SelectedGenres
           verdict == ValidateRead(title, author, rating, book_type, month)
       IN  IF verdict /= "ok" THEN Reject("save_read", verdict)
           ELSE \E io \in IOOutcomes :
                  /\ SaveCsv(READ_FILE,
                             <<title, author, rating, book_type,
                               Join(", ", selected_genres), month>>,
                             READ_HEADER, io, maxLines)
                  /\ ClearEntries
                  /\ last' = Event("save_read", Outcome(io), ClearEntriesRaises,
                                   read_status, FALSE)

\* The Save button of To Be Read mode: _save_tbr_book.
SaveTbrBook(maxLines) ==
    /\ read_status = TBR
    /\ UNCHANGED read_status
    /\ LET title == Strip(title_entry)
           author == Strip(author_entry)
           book_type == type_var
           verdict == ValidateTbr(title, author, book_type)
       IN  IF verdict /= "ok" THEN Reject("save_tbr", verdict)
           ELSE \E io \in IOOutcomes :
                  /\ SaveCsv(TBR_FILE, <<title, author, book_type>>, TBR_HEADER,
                             io, maxLines)
                  /\ ClearEntries
                  /\ last' = Event("save_tbr", Outcome(io), ClearEntriesRaises,
                                   read_status, FALSE)

----------------------------------------------------------------------------
(* Specifications: the same callbacks under different sets of user input *)

MaxLines == 3

MaxLinesRating == 2

MaxLinesRow == 2

\* Every widget in use, with few values each.
FormInput ==
    [titles |-> {" ", " Title "}, authors |-> {"Author"}, ratings |-> {"abc", " 9 "},
     types |-> {TYPES[1]}, months |-> {MONTHS[3]}, genres |-> {GENRES[1]}]

Next ==
    \/ ShowReadOptions
    \/ ShowTbrOptions
    \/ EditTitle(FormInput.titles)
    \/ EditAuthor(FormInput.authors)
    \/ EditRating(FormInput.ratings)
    \/ ChooseType(FormInput.types)
    \/ ChooseMonth(FormInput.months)
    \/ ToggleGenre(FormInput.genres)
    \/ SaveReadBook(MaxLines)
    \/ SaveTbrBook(MaxLines)

Spec == Init /\ [][Next]_vars

\* Read mode with many rating texts.
RatingInput ==
    [titles |-> {"Dune"}, authors |-> {"Frank Herbert"},
     ratings |-> {" ", "7.5", "11", "abc", " 9 ", "10", "10.01", "0", "-0", "-1",
                  "nan", "inf", "1e1", "1e2", "1_0", "1__0", ".5", ".", "-1e-400"},
     types |-> {TYPES[1]}]

NextRating ==
    \/ ShowReadOptions
    \/ EditTitle(RatingInput.titles)
    \/ EditAuthor(RatingInput.authors)
    \/ EditRating(RatingInput.ratings)
    \/ ChooseType(RatingInput.types)
    \/ SaveReadBook(MaxLinesRating)

SpecRating == Init /\ [][NextRating]_vars

\* Read mode with several genres and text that csv.writer must quote.
RowInput ==
    [titles |-> {" Dune", "Eats, \"Shoots\""}, authors |-> {"Frank Herbert"},
     ratings |-> {"7.5"}, types |-> {TYPES[2]}, months |-> {MONTHS[3]},
     genres |-> {GENRES[3], GENRES[2]}]

NextRow ==
    \/ ShowReadOptions
    \/ EditTitle(RowInput.titles)
    \/ EditAuthor(RowInput.authors)
    \/ EditRating(RowInput.ratings)
    \/ ChooseType(RowInput.types)
    \/ ChooseMonth(RowInput.months)
    \/ ToggleGenre(RowInput.genres)
    \/ SaveReadBook(MaxLinesRow)

SpecRow == Init /\ [][NextRow]_vars

----------------------------------------------------------------------------
(* Reading a file back: what the properties below compare the lines with *)

\* The line without its terminator.
Chomp(line) ==
    IF Len(line) >= 2 /\ SubSeq(line, Len(line) - 1, Len(line)) = "\r\n"
    THEN SubSeq(line, 1, Len(line) - 2) ELSE line

\* A quoted field without its quotes, a doubled quote read as one quote.
RECURSIVE Undouble(_)
Undouble(s) ==
    IF Len(s) = 0 THEN ""
    ELSE IF Len(s) >= 2 /\ SubSeq(s, 1, 2) = "\"\"" THEN "\"" \o Undouble(SubSeq(s, 3, Len(s)))
    ELSE Char(s, 1) \o Undouble(SubSeq(s, 2, Len(s)))

Unquote(field) ==
    IF Len(field) >= 2 /\ Char(field, 1) = "\"" /\ Char(field, Len(field)) = "\""
    THEN Undouble(SubSeq(field, 2, Len(field) - 1))
    ELSE field

\* The k-th smallest member of a set of numbers.
Nth(S, k) == CHOOSE p \in S : Cardinality({ q \in S : q < p }) = k - 1

\* csv.reader on one line: the fields lie between the commas that an even
\* number of quote characters precede (the commas outside quotes).
CsvParse(line) ==
    LET s == Chomp(line)
        quotesBefore(i) == Cardinality({ j \in 1..(i - 1) : Char(s, j) = "\"" })
        cuts == { i \in 1..Len(s) : Char(s, i) = "," /\ quotesBefore(i) % 2 = 0 }
        n == Cardinality(cuts)
        from(k) == IF k = 1 THEN 1 ELSE Nth(cuts, k - 1) + 1
        to(k) == IF k = n + 1 THEN Len(s) ELSE Nth(cuts, k) - 1
    IN  [k \in 1..(n + 1) |-> Unquote(SubSeq(s, from(k), to(k)))]

\* s.split(sep): the pieces between the occurrences of sep, left to right;
\* "" splits into one empty piece.
RECURSIVE Split(_, _)
Split(s, sep) ==
    LET hits == { i \in 1..(Len(s) - Len(sep) + 1) : SubSeq(s, i, i + Len(sep) - 1) = sep }
    IN  IF hits = {} THEN <<s>>
        ELSE LET i == Nth(hits, 1)
             IN  <<SubSeq(s, 1, i - 1)>> \o Split(SubSeq(s, i + Len(sep), Len(s)), sep)

HeaderOf(filename) == IF filename = READ_FILE THEN READ_HEADER ELSE TBR_HEADER

FileNames == {READ_FILE, TBR_FILE}

\* The step appended a data row to the file.
RowAppended(filename) ==
    LET old == files[filename].lines
        new == files'[filename].lines
    IN  /\ Len(new) > Len(old)
        /\ SubSeq(new, 1, Len(old)) = old
        /\ new[Len(new)] /= WriteRow(HeaderOf(filename))

\* The rating text denotes a real number r (not nan, not an infinity) with
\* 0 <= r <= 10, by cross-multiplication.
IsRatingInRange(text) ==
    LET v == ParseFloat(text)
    IN  /\ v.ok
        /\ v.kind = "num"
        /\ v.mant = 0 \/ ~v.neg
        /\ \/ v.mant = 0
           \/ v.exp >= 0 /\ v.exp <= 1 /\ v.mant * Pow10(v.exp) <= 10
           \/ v.exp < 0 /\ (v.exp <= -9 \/ v.mant <= 10 * Pow10(-v.exp))

Submitted == last'.op \in {"save_read", "save_tbr"}

Toggled == last'.op \in {"show_read", "show_tbr"}

----------------------------------------------------------------------------
(* The claims *)

\* C1: when a submit passes validation and the Storage Writer fails, every
\* field value (title, author, rating, type, genres, month) is after the
\* submit what it was before it, in both modes.
C1_FailedSaveKeepsFields ==
    [][(Submitted /\ last'.outcome = "error") => fields' = fields]_vars

\* C2: after any sequence of toggles and submits, a submit that saves
\* successfully leaves every field at its default: title, author and rating
\* empty, type unset, every genre unset, month "January".
C2_SavedResetsAllFields ==
    (last.op \in {"save_read", "save_tbr"} /\ last.outcome = "saved") =>
        /\ title_entry = ""
        /\ author_entry = ""
        /\ rating_entry.text = ""
        /\ type_var = ""
        /\ genre_vars.vals = NoGenres
        /\ month_var = "January"

\* C3: in every reachable state each of the two files is absent or empty, or
\* has its header row as its first row and nowhere else.
C3_HeaderOnceAndFirst ==
    \A f \in FileNames :
        LET lines == files[f].lines
        IN  /\ ~files[f].exists => lines = <<>>
            /\ lines /= <<>> =>
                  /\ lines[1] = WriteRow(HeaderOf(f))
                  /\ \A i \in 2..Len(lines) : lines[i] /= WriteRow(HeaderOf(f))

\* Each file holds its header and two data rows: a first append wrote the
\* header, a later one did not.
C3_Witness ==
    /\ Len(files[TBR_FILE].lines) = 3
    /\ files[READ_FILE].exists
    /\ Len(files[READ_FILE].lines) = 3
    /\ last.outcome = "saved"

\* C4: a submit rejected by validation appends no row to either file and
\* leaves all field values unchanged: in ToBeRead mode every submit with an
\* empty (after trimming) title, an empty author or an unset type is rejected
\* with "Fill in all fields."; in Read mode every submit with a missing
\* required field or an invalid rating is rejected with its message.
C4_RejectedSubmitChangesNothing ==
    [][ /\ (/\ last'.op = "save_tbr"
            /\ (Strip(title_entry) = "" \/ Strip(author_entry) = "" \/ type_var = ""))
           => (/\ files' = files
               /\ fields' = fields
               /\ message_label'.text = MSG_FILL
               /\ last'.outcome = "fill")
        /\ (/\ last'.op = "save_read"
            /\ (\/ Strip(title_entry) = "" \/ Strip(author_entry) = ""
                \/ Strip(rating_entry.text) = "" \/ type_var = "" \/ month_var = ""))
           => (/\ files' = files
               /\ fields' = fields
               /\ message_label'.text = MSG_FILL
               /\ last'.outcome = "fill")
        /\ (/\ last'.op = "save_read"
            /\ Strip(title_entry) /= "" /\ Strip(author_entry) /= ""
            /\ Strip(rating_entry.text) /= "" /\ type_var /= "" /\ month_var /= ""
            /\ ~IsRatingInRange(Strip(rating_entry.text)))
           => (/\ files' = files
               /\ fields' = fields
               /\ message_label'.text = MSG_RATING
               /\ last'.outcome = "rating")
      ]_vars

\* A ToBeRead submit was rejected for its empty author and the title typed
\* is still there.
C4_Witness ==
    /\ last.op = "save_tbr"
    /\ last.outcome = "fill"
    /\ Strip(title_entry) /= ""
    /\ author_entry = ""
    /\ type_var /= ""
    /\ message_label.text = MSG_FILL

ReadFilled ==
    /\ Strip(title_entry) /= ""
    /\ Strip(author_entry) /= ""
    /\ type_var /= ""
    /\ month_var /= ""

\* C5 as stated: in Read mode with title, author, type and month filled, a
\* row is appended to read_books.csv if and only if the trimmed rating text
\* parses as a real number r with 0 <= r <= 10.
C5_RowAppendedIffRatingInRange ==
    [][(last'.op = "save_read" /\ ReadFilled)
         => (RowAppended(READ_FILE) <=> IsRatingInRange(Strip(rating_entry.text)))]_vars

\* C5 as amended: in Read mode with title, author, type and month filled, a
\* submit passes validation and reaches the Storage Writer if and only if the
\* trimmed rating text parses as a real number r with 0 <= r <= 10, and the
\* row is then appended unless the write fails; an empty rating is rejected
\* with "Fill in all fields." and any other rating with "Rating must be a
\* number between 0 and 10.", neither touching a file.
C5_AcceptedIffRatingInRange ==
    [][(last'.op = "save_read" /\ ReadFilled)
         => LET rating == Strip(rating_entry.text)
            IN  /\ last'.outcome \in {"saved", "error"} <=> IsRatingInRange(rating)
                /\ last'.outcome = "saved"
                     => (/\ RowAppended(READ_FILE)
                         /\ message_label'.text = MSG_SAVED)
                /\ last'.outcome = "error" => message_label'.text \notin {MSG_SAVED, MSG_FILL, MSG_RATING}
                /\ rating = ""
                     => (message_label'.text = MSG_FILL /\ files' = files)
                /\ (rating /= "" /\ ~IsRatingInRange(rating))
                     => (message_label'.text = MSG_RATING /\ files' = files)]_vars

\* A rating was rejected as not a number between 0 and 10 after an earlier
\* submit had been accepted and saved.
C5_Witness ==
    /\ last.op = "save_read"
    /\ last.outcome = "rating"
    /\ ReadFilled
    /\ Len(files[READ_FILE].lines) = 2

\* C6: every mode toggle resets the status message: right after a toggle the
\* status text is empty.
C6_ToggleResetsMessage ==
    last.op \in {"show_read", "show_tbr"} => message_label.text = ""

\* C7: toggling Read -> ToBeRead -> Read resets the rating and the genres:
\* whatever was set in the first Read visit, on entering Read mode the rating
\* is empty and no genre is checked.
C7_ReadModeStartsClean ==
    last.op = "show_read" =>
        /\ read_status = READ
        /\ rating_entry = [bound |-> TRUE, alive |-> TRUE, text |-> ""]
        /\ genre_vars = [bound |-> TRUE, vals |-> NoGenres]
        /\ SelectedGenres = <<>>

\* Read mode was entered from ToBeRead mode while genres checked in an
\* earlier Read visit were still held.
C7_Witness ==
    /\ last.op = "show_read"
    /\ last.from = TBR
    /\ last.stale

\* C8: every row appended by a valid Read submit has 6 fields in the order
\* Title, Author, Rating, Type, Genres, Month (as many as the header), and
\* its Genres field is the selected genres joined by ", " in the
\* vocabulary's order: split on ", " again it gives those genres, a subset
\* of the 17; no selection gives an empty field.
C8_ReadRowShape ==
    [][(last'.op = "save_read" /\ RowAppended(READ_FILE))
         => LET new == files'[READ_FILE].lines
                row == CsvParse(new[Len(new)])
                chosen == { g \in Range(GENRES) : genre_vars.vals[g] = 1 }
                pieces == Split(row[5], ", ")
                Index(g) == CHOOSE i \in 1..Len(GENRES) : GENRES[i] = g
            IN  /\ Len(row) = 6
                /\ Len(row) = Len(CsvParse(WriteRow(READ_HEADER)))
                /\ CsvParse(WriteRow(READ_HEADER)) = READ_HEADER
                /\ row[1] = Strip(title_entry)
                /\ row[2] = Strip(author_entry)
                /\ row[3] = Strip(rating_entry.text)
                /\ row[4] = type_var
                /\ row[6] = month_var
                /\ chosen = {} => row[5] = ""
                /\ chosen /= {} =>
                      /\ Range(pieces) = chosen
                      /\ Range(pieces) \subseteq Range(GENRES)
                      /\ Len(pieces) = Cardinality(chosen)
                      /\ \A i \in 1..Len(pieces) - 1 :
                            Index(pieces[i]) < Index(pieces[i + 1])]_vars

\* A saved row holds two genres and a title that had to be quoted.
C8_Witness ==
    /\ last.op = "save_read"
    /\ last.outcome = "saved"
    /\ \E i \in 1..Len(files[READ_FILE].lines) :
          LET row == CsvParse(files[READ_FILE].lines[i])
          IN  /\ Len(Split(row[5], ", ")) = 2
              /\ HasChar(row[1], ",")

\* C9: every submit callback runs to completion: none, successful or
\* failed, in either mode, raises an error that escapes it.
C9_NoSubmitRaises ==
    last.op \in {"save_read", "save_tbr"} => ~last.raised

\* C10: a mode toggle discards the title, author, rating and genre values
\* and leaves the type and the month as they were.
C10_ToggleKeepsTypeAndMonth ==
    [][Toggled =>
         /\ type_var' = type_var
         /\ month_var' = month_var
         /\ title_entry' = ""
         /\ author_entry' = ""
         /\ rating_entry'.text = ""
         /\ read_status' = READ => (rating_entry'.alive /\ genre_vars'.vals = NoGenres)
         /\ read_status' = TBR => ~rating_entry'.alive]_vars

\* ToBeRead mode was entered from Read mode with a type and a month chosen
\* there, and both are still set.
C10_Witness ==
    /\ last.op = "show_tbr"
    /\ last.from = READ
    /\ type_var /= ""
    /\ month_var /= "January"
    /\ title_entry = ""

====
